---- MODULE Spec2Model ----
(***************************************************************************)
(* Site-graph context mapping (context_mapping/): the graph loaded by      *)
(* ContextGenerator, the navigation-tree walk of ContextFileGenerator and  *)
(* VisualGraphGenerator, the generateAll pipeline and the keyword match of *)
(* generateTaskContext.                                                    *)
(***************************************************************************)
EXTENDS Integers, Sequences, FiniteSets, TLC

\* ------------------------------------------------------------------ bounds
MaxNodes == 3
MaxEdges == 3
MaxMixedEdges == 2
NumIds == 3
MaxRootEdges == 1
MaxLoadEdges == 2
MaxTaskLen == 3
MaxMatchNodes == 2
MaxElements == 2
MaxCalls == 3

Ids == 1..NumIds
NoId == 0

\* ------------------------------------------------------------- graph values
\* A node of website-graph.json.  requiresAuth is "true", "false" or "undef"
\* (the field is absent, as on components); entryPoint is the truthiness of
\* node.userFlow && node.userFlow.entryPoint; name, description and route are
\* strings (sequences of one-character strings).
Node(id, type, auth, entry, name, description, route) ==
  [id |-> id, type |-> type, requiresAuth |-> auth, entryPoint |-> entry,
   name |-> name, description |-> description, route |-> route]

Edge(from, to, type) == [from |-> from, to |-> to, type |-> type]

SeqsUpTo(S, n) == UNION {[1..k -> S] : k \in 0..n}

\* Node ids are opaque strings compared only by equality, so id sequences are
\* enumerated up to renaming: the first node has id 1 and a node's id is at
\* most one more than the largest id before it.  Repeated ids are included.
MaxOf(S) == IF S = {} THEN 0 ELSE CHOOSE m \in S : \A x \in S : x <= m

IdSeqs(n) ==
  {s \in [1..n -> Ids] :
     \A i \in 1..n : s[i] <= MaxOf({s[j] : j \in 1..(i - 1)}) + 1}

EdgeSet == {Edge(f, t, ty) : f \in Ids, t \in Ids, ty \in {"navigation", "interaction"}}

NavEdgeSet == {e \in EdgeSet : e.type = "navigation"}

NoGraph == [nodes |-> <<>>, edges |-> <<>>]

\* ---------------------------------------------------------------- accessors
\* Array.prototype.find over graph.nodes: the least of the indices S of the
\* nodes that satisfy the callback, 0 (undefined) when there is none.
FirstIndex(S) == IF S = {} THEN 0 ELSE CHOOSE i \in S : \A j \in S : i <= j

findNode(g, nodeId) == FirstIndex({i \in 1..Len(g.nodes) : g.nodes[i].id = nodeId})

\* graph.edges.filter(edge => edge.from === nodeId && edge.type === 'navigation'),
\* in edge order.
RECURSIVE NavFrom(_, _)
NavFrom(edges, nodeId) ==
  IF edges = <<>> THEN <<>>
  ELSE IF Head(edges).from = nodeId /\ Head(edges).type = "navigation"
  THEN <<Head(edges)>> \o NavFrom(Tail(edges), nodeId)
  ELSE NavFrom(Tail(edges), nodeId)

getNavigationPaths(g, nodeId) == NavFrom(g.edges, nodeId)

\* The children taken in reverse edge order.
MutChildren(g, nodeId) ==
  LET nav == getNavigationPaths(g, nodeId) IN [k \in 1..Len(nav) |-> nav[Len(nav) + 1 - k].to]

\* .map(edge => edge.to)
children(g, nodeId) ==
  LET nav == getNavigationPaths(g, nodeId) IN [k \in 1..Len(nav) |-> nav[k].to]

\* The node check without the test of node.type.
MutIsPage(g, nodeId) == findNode(g, nodeId) # 0

\* node found and node.type === 'page'
isPage(g, nodeId) ==
  LET k == findNode(g, nodeId) IN k # 0 /\ g.nodes[k].type = "page"

\* JavaScript truthiness of node.requiresAuth.
Truthy(auth) == auth = "true"

\* graph.nodes.find(entryPoint flag) || graph.nodes.find(node => !node.requiresAuth):
\* index of the entry point, 0 when both finds return undefined.
HasEntryFlag(g) == {i \in 1..Len(g.nodes) : g.nodes[i].entryPoint}

NotRequiresAuth(g) == {i \in 1..Len(g.nodes) : ~Truthy(g.nodes[i].requiresAuth)}

findEntryPoint(g) ==
  IF FirstIndex(HasEntryFlag(g)) # 0 THEN FirstIndex(HasEntryFlag(g))
  ELSE FirstIndex(NotRequiresAuth(g))

\* -------------------------------------------------------------------- state
VARIABLES
  source,     \* the file the constructor reads: [kind, graph]
  graph,      \* this.graph of ContextGenerator
  gen,        \* position of the generator process: "new", "cli", the generateAll
              \* steps "full", "quick", "tree", "json", "html", then "finished" or "failed"
  artifacts,  \* files written by generateAll
  thrown,     \* the error that ended the process, "none" when there is none
  via,        \* how the walk was started: "none", "generateTreeStructure", "buildTreeText"
  pc,         \* position of the tree generator: "idle", "walk", "done"
  root,       \* id the walk was started at, NoId when none was resolved
  visited,    \* the Set passed down the recursion
  stack,      \* active buildTreeText calls: [nodeId, depth, children, i]
  treeNodes,  \* nodes for which the walk appended a line: [id, depth, parent]
  task,       \* taskDescription given to generateTaskContext
  tpc,        \* "ready" before generateTaskContext, "returned" or "thrown" after
  relevant,   \* relevantPages: indices into graph.nodes, in order
  context,    \* the string generateTaskContext returns, by its sections
  taskError,  \* the error generateTaskContext threw, "none" when it returned
  digest,     \* the string generateQuickReference returns, by its entries
  counters,   \* the stat cards of the string generateHTMLTreeMap returns
  outputs,    \* per renderer, the results its finished calls handed to the caller
  log,        \* the finished renderer calls, oldest first
  narrative,  \* the string generateFullContext returns, by its sections
  treeText,   \* the string generateTreeStructure / generateTextTree returns, by its parts
  diagrams,   \* the strings generateMermaidDiagram and generateDotFormat return
  fixer,      \* the code-fixing agent's writeFixedCode and the files it touches
  poll,       \* the polling loop of the browser automation
  chat        \* the POST /api/chat handler and its request

vars == <<source, graph, gen, artifacts, thrown, via, pc, root, visited, stack,
          treeNodes, task, tpc, relevant, context, taskError, digest, counters,
          outputs, log, narrative, treeText, diagrams, fixer, poll, chat>>

loadVars == <<source, graph, gen, artifacts, thrown>>

walkVars == <<via, pc, root, visited, stack, treeNodes>>

taskVars == <<task, tpc, relevant, context, taskError>>

renderVars == <<digest, counters, outputs, log>>

viewVars == <<narrative, treeText, diagrams>>

sideVars == <<fixer, poll, chat>>

\* ------------------------------------------------------------ the tree walk
\* A walk that never finds an id in its visited set.
MutVisitedHas(v, nodeId) == FALSE

\* visited.has(nodeId)
VisitedHas(v, nodeId) == nodeId \in v

\* The recursion is at most one call deep per distinct id, so the guard on
\* the stack in visitChild never holds a walk back.
MaxDepth == NumIds + 1

\* One invocation of buildTreeText / buildTreeRecursive(nodeId, depth) made by
\* the call for `parent` (NoId for the top call), on the call stack `st`:
\* the resulting <<visited, stack, treeNodes>>.  The line of a page is appended
\* (tree += ...) to the callee's own copy of the string `tree`; treeNodes
\* records for which node, at which depth and under which caller that happens.
Invoke(nodeId, depth, parent, st) ==
  IF VisitedHas(visited, nodeId)
  THEN <<visited, st, treeNodes>>
  ELSE IF ~isPage(graph, nodeId)
  THEN <<visited \cup {nodeId}, st, treeNodes>>
  ELSE <<visited \cup {nodeId},
         Append(st, [nodeId |-> nodeId, depth |-> depth,
                     children |-> children(graph, nodeId), i |-> 1]),
         Append(treeNodes, [id |-> nodeId, depth |-> depth, parent |-> parent])>>

Started(how, r, res) ==
  /\ via' = how
  /\ root' = r
  /\ visited' = res[1]
  /\ stack' = res[2]
  /\ treeNodes' = res[3]
  /\ pc' = IF res[2] = <<>> THEN "done" ELSE "walk"

\* generateTreeStructure / generateTextTree: resolve the entry point and, when
\* there is one, start the walk there with a fresh visited set.  No error is
\* raised when there is none.
generateTreeStructure ==
  /\ gen \in {"cli", "tree"}
  /\ pc = "idle"
  /\ LET k == findEntryPoint(graph) IN
       IF k = 0
       THEN /\ via' = "generateTreeStructure"
            /\ pc' = "done"
            /\ UNCHANGED <<root, visited, stack, treeNodes>>
       ELSE Started("generateTreeStructure", graph.nodes[k].id,
                    Invoke(graph.nodes[k].id, 0, NoId, <<>>))
  /\ UNCHANGED <<loadVars, taskVars, renderVars, viewVars, sideVars>>

\* buildTreeText called with a root id chosen by the caller.
buildTreeText(rootId) ==
  /\ gen = "cli"
  /\ pc = "idle"
  /\ Started("buildTreeText", rootId, Invoke(rootId, 0, NoId, <<>>))
  /\ UNCHANGED <<loadVars, taskVars, renderVars, viewVars, sideVars>>

\* children.forEach: the top call recurses into its next child.
visitChild ==
  /\ pc = "walk"
  /\ stack # <<>>
  /\ Len(stack) < MaxDepth
  /\ LET top == stack[Len(stack)] IN
       /\ top.i <= Len(top.children)
       /\ LET adv == [stack EXCEPT ![Len(stack)].i = top.i + 1]
              res == Invoke(top.children[top.i], top.depth + 1, top.nodeId, adv)
          IN /\ visited' = res[1]
             /\ stack' = res[2]
             /\ treeNodes' = res[3]
  /\ UNCHANGED <<loadVars, taskVars, renderVars, via, pc, root, viewVars, sideVars>>

\* forEach is exhausted: the top call returns.
return ==
  /\ pc = "walk"
  /\ stack # <<>>
  /\ LET top == stack[Len(stack)] IN top.i > Len(top.children)
  /\ stack' = SubSeq(stack, 1, Len(stack) - 1)
  /\ pc' = IF Len(stack) = 1 THEN "done" ELSE "walk"
  /\ UNCHANGED <<loadVars, taskVars, renderVars, via, root, visited, treeNodes, viewVars, sideVars>>

\* ------------------------------------------------------------ specification
\* Graphs for the walk: distinct ids, pages and components, and either up to
\* MaxEdges Navigation edges or up to MaxMixedEdges edges of either type, with
\* endpoints over all of Ids (an id no node carries is a dangling endpoint).
PlainNode(id, type) ==
  Node(id, type, IF type = "page" THEN "false" ELSE "undef", FALSE, <<>>, <<>>, <<>>)

WalkNodes ==
  UNION {{[i \in 1..n |-> PlainNode(i, ty[i])] : ty \in [1..n -> {"page", "component"}]} :
           n \in 0..MaxNodes}

WalkEdges == SeqsUpTo(NavEdgeSet, MaxEdges) \cup SeqsUpTo(EdgeSet, MaxMixedEdges)

WalkGraphs == {[nodes |-> ns, edges |-> es] : ns \in WalkNodes, es \in WalkEdges}

Idle ==
  /\ via = "none"
  /\ pc = "idle"
  /\ root = NoId
  /\ visited = {}
  /\ stack = <<>>
  /\ treeNodes = <<>>

\* `context` before generateTaskContext has built anything.
NoContext ==
  [sections |-> <<>>, pages |-> <<>>, username |-> "", password |-> "", login |-> <<>>]

NoTask ==
  /\ task = <<>>
  /\ tpc = "ready"
  /\ relevant = <<>>
  /\ context = NoContext
  /\ taskError = "none"

\* `digest` before generateQuickReference has run.
NoDigest == [called |-> FALSE, routes |-> <<>>, selectors |-> <<>>]

\* `counters` before generateHTMLTreeMap has run.
NoCounters ==
  [called |-> FALSE, error |-> "none", pages |-> 0, components |-> 0,
   connections |-> 0, protectedPages |-> 0, pageRecords |-> <<>>]

NoRender ==
  /\ digest = NoDigest
  /\ counters = NoCounters
  /\ outputs = [task |-> {}, digest |-> {}, counters |-> {}]
  /\ log = <<>>

\* `narrative` before generateFullContext has run.
NoOptions == [includeAuth |-> "unset", includeComponents |-> "unset", includeFlows |-> "unset"]

NoNarrative ==
  [called |-> FALSE, error |-> "none", options |-> NoOptions, sections |-> <<>>,
   pages |-> <<>>, groups |-> <<>>]

\* `treeText` before a tree generator has returned.
NoTreeText == [called |-> FALSE, lines |-> <<>>, allPages |-> <<>>]

\* `diagrams` before a diagram generator has run.
NoDiagram == [called |-> FALSE, nodes |-> <<>>, edges |-> <<>>]

NoViews ==
  /\ narrative = NoNarrative
  /\ treeText = NoTreeText
  /\ diagrams = [mermaid |-> NoDiagram, dot |-> NoDiagram]

\* The code-fixing agent before main() has run, the target file holding `code`.
FixerAt(code, key) ==
  [pc |-> "idle", failedAt |-> "none", apiKey |-> key, initial |-> code, target |-> code,
   backups |-> {}, code |-> "", analysis |-> "none", fixedCode |-> "", originalCode |-> ""]

NoFixer == FixerAt("v1", FALSE)

\* automateStyleScout before the task is created.
NoPoll == [pc |-> "idle", attempts |-> 0, status |-> "none", error |-> "none"]

\* An error with neither code nor status (status 0 stands for undefined).
NoError == [code |-> "none", status |-> 0]

NoHistory == [kind |-> "absent", turns |-> <<>>]

\* The /api/chat handler before a request has arrived.
NoChat == [pc |-> "idle", message |-> "absent", history |-> NoHistory, messages |-> <<>>,
           calls |-> 0, reply |-> "none", galileo |-> "none", thrown |-> "none", error |-> NoError, responses |-> <<>>]

\* The other programs of the repository are not running.
NoSide ==
  /\ fixer = NoFixer
  /\ poll = NoPoll
  /\ chat = NoChat

\* The state after `new ContextGenerator()` on a well-formed file holding g.
Loaded(g) ==
  /\ source = [kind |-> "graph", graph |-> g]
  /\ graph = g
  /\ gen = "cli"
  /\ artifacts = {}
  /\ thrown = "none"

Init ==
  /\ \E g \in WalkGraphs : Loaded(g)
  /\ Idle
  /\ NoTask
  /\ NoRender
  /\ NoViews
  /\ NoSide

Next ==
  \/ generateTreeStructure
  \/ \E r \in Ids : buildTreeText(r)
  \/ visitChild
  \/ return

Spec == Init /\ [][Next]_vars

FairSpec == Spec /\ WF_vars(Next)

\* ----------------------------------------------------- properties of the walk
TreeIds == {treeNodes[k].id : k \in 1..Len(treeNodes)}

NavSucc(g, S) == {e.to : e \in {g.edges[k] : k \in 1..Len(g.edges)} \cap
                           {x \in EdgeSet : x.type = "navigation" /\ x.from \in S}}

\* Ids reachable from S by zero or more Navigation edges.
RECURSIVE NavClosure(_, _)
NavClosure(g, S) ==
  LET T == S \cup NavSucc(g, S) IN IF T = S THEN S ELSE NavClosure(g, T)

\* A Navigation cycle (a self-loop included) can be reached from r.
CycleReachable(g, r) ==
  \E v \in NavClosure(g, {r}) : v \in NavClosure(g, NavSucc(g, {v}))

IsPageNode(g, id) == \E k \in 1..Len(g.nodes) : g.nodes[k].id = id /\ g.nodes[k].type = "page"

\* Pages reachable from r by Navigation edges through pages only.
RECURSIVE PageClosure(_, _)
PageClosure(g, S) ==
  LET T == S \cup {v \in NavSucc(g, S) : IsPageNode(g, v)}
  IN IF T = S THEN S ELSE PageClosure(g, T)

PageReach(g, r) == IF IsPageNode(g, r) THEN PageClosure(g, {r}) ELSE {}

\* Depth-first preorder by a worklist: the first pending item that reaches an
\* id records its depth and parent, later items for that id are dropped.
RECURSIVE Preorder(_, _, _, _)
Preorder(g, work, seen, out) ==
  IF work = <<>> THEN out
  ELSE LET w == Head(work)
           nav == NavFrom(g.edges, w.id)
           kids == [k \in 1..Len(nav) |->
                      [id |-> nav[k].to, depth |-> w.depth + 1, parent |-> w.id]]
       IN IF w.id \in seen THEN Preorder(g, Tail(work), seen, out)
          ELSE IF ~IsPageNode(g, w.id) THEN Preorder(g, Tail(work), seen \cup {w.id}, out)
          ELSE Preorder(g, kids \o Tail(work), seen \cup {w.id}, Append(out, w))

FirstReachTree(g, r) == Preorder(g, <<[id |-> r, depth |-> 0, parent |-> NoId]>>, {}, <<>>)

\* C1: a walk started at a root from which a Navigation cycle (also a
\* self-loop on the root) can be reached always comes to its end.
C1_WalkTerminates ==
  (pc = "walk" /\ CycleReachable(graph, root)) ~> (pc = "done")

C1_Witness ==
  /\ pc = "done"
  /\ CycleReachable(graph, root)
  /\ Len(treeNodes) >= 2
  /\ \E k \in 1..Len(graph.edges) :
       graph.edges[k].type = "navigation" /\ graph.edges[k].to = root
         /\ graph.edges[k].from \in TreeIds

\* C2: no node appears twice in the tree, whatever number of Navigation
\* edges (diamond, cycle, repeated edge) lead to it.
C2_AtMostOnce ==
  \A j, k \in 1..Len(treeNodes) : treeNodes[j].id = treeNodes[k].id => j = k

C2_Witness ==
  /\ pc = "done"
  /\ \E v \in TreeIds :
       Cardinality({k \in 1..Len(graph.edges) :
                      graph.edges[k].type = "navigation" /\ graph.edges[k].to = v
                        /\ graph.edges[k].from \in TreeIds}) >= 2

\* C3: the tree is the depth-first, edge-order, first-reach tree over
\* Navigation edges: the root has depth 0 and no parent, every other node has
\* an earlier tree node as parent, a Navigation edge from it and its depth
\* plus one, and the finished tree is exactly the first-reach preorder.
C3_DepthFirstFirstReach ==
  /\ treeNodes # <<>> => treeNodes[1] = [id |-> root, depth |-> 0, parent |-> NoId]
  /\ \A k \in 2..Len(treeNodes) :
       \E j \in 1..(k - 1) :
         /\ treeNodes[j].id = treeNodes[k].parent
         /\ treeNodes[k].depth = treeNodes[j].depth + 1
         /\ Edge(treeNodes[j].id, treeNodes[k].id, "navigation") \in
              {graph.edges[e] : e \in 1..Len(graph.edges)}
  /\ (pc = "done" /\ via # "none" /\ root # NoId) => treeNodes = FirstReachTree(graph, root)

\* The triangle 1 -> 2, 1 -> 3, 2 -> 3 walked from 1: node 3 is first reached
\* through 2, so the later edge 1 -> 3 adds nothing.
C3_Witness ==
  /\ pc = "done"
  /\ Len(treeNodes) = 3
  /\ \E k \in 1..Len(treeNodes) :
       /\ treeNodes[k].depth = 2
       /\ Edge(root, treeNodes[k].id, "navigation") \in
            {graph.edges[e] : e \in 1..Len(graph.edges)}

\* C4: the finished tree holds exactly the pages reachable from the root by
\* Navigation edges through pages only; no component is in it.
C4_SpanningTreeOfPages ==
  /\ \A v \in TreeIds : IsPageNode(graph, v)
  /\ (pc = "done" /\ via # "none" /\ root # NoId) => TreeIds = PageReach(graph, root)

\* A page behind a component, and a page behind an Interaction edge, stay out.
C4_Witness ==
  /\ pc = "done"
  /\ treeNodes # <<>>
  /\ \/ \E c, v \in Ids :
          /\ ~IsPageNode(graph, c) /\ IsPageNode(graph, v) /\ v \notin TreeIds
          /\ Edge(root, c, "navigation") \in {graph.edges[e] : e \in 1..Len(graph.edges)}
          /\ Edge(c, v, "navigation") \in {graph.edges[e] : e \in 1..Len(graph.edges)}
     \/ \E v \in Ids :
          /\ IsPageNode(graph, v) /\ v \notin TreeIds
          /\ Edge(root, v, "interaction") \in {graph.edges[e] : e \in 1..Len(graph.edges)}

\* ------------------------------------------- entry-point resolution (RootSpec)
\* Graphs for the entry-point resolution: pages with either requiresAuth value
\* and either entry-point flag, components (no requiresAuth field, no
\* userFlow), and up to MaxRootEdges edges.
RootNodeKinds ==
  {[type |-> "page", requiresAuth |-> a, entryPoint |-> e] :
     a \in {"true", "false"}, e \in BOOLEAN}
  \cup {[type |-> "component", requiresAuth |-> "undef", entryPoint |-> FALSE]}

RootNodes ==
  UNION {{[i \in 1..n |-> Node(i, k[i].type, k[i].requiresAuth, k[i].entryPoint,
                                <<>>, <<>>, <<>>)] : k \in [1..n -> RootNodeKinds]} :
           n \in 0..MaxNodes}

RootGraphs ==
  {[nodes |-> ns, edges |-> es] : ns \in RootNodes, es \in SeqsUpTo(EdgeSet, MaxRootEdges)}

RootInit ==
  /\ \E g \in RootGraphs : Loaded(g)
  /\ Idle
  /\ NoTask
  /\ NoRender
  /\ NoViews
  /\ NoSide

RootSpec == RootInit /\ [][Next]_vars

HasPage(g) == \E k \in 1..Len(g.nodes) : g.nodes[k].type = "page"

IsFalse(g) == {i \in 1..Len(g.nodes) : g.nodes[i].requiresAuth = "false"}

IsPageKind(g) == {i \in 1..Len(g.nodes) : g.nodes[i].type = "page"}

\* The root the three-step policy names: the first node flagged as entry
\* point, else the first node with requiresAuth = false, else the first page.
PolicyRoot(g) ==
  LET k == IF HasEntryFlag(g) # {} THEN FirstIndex(HasEntryFlag(g))
           ELSE IF IsFalse(g) # {} THEN FirstIndex(IsFalse(g))
           ELSE FirstIndex(IsPageKind(g))
  IN IF k = 0 THEN NoId ELSE g.nodes[k].id

\* C5: with no root supplied the root is the first node flagged as entry
\* point, else the first node with requiresAuth = false, else the first page
\* in declaration order.
C5_RootPolicy ==
  via = "generateTreeStructure" => root = PolicyRoot(graph)

\* C6: with no root supplied, a graph with a page gets a root and a tree, and
\* a graph without any page fails with NoRootFoundError.
C6_NoRootOnlyWithoutPages ==
  (via = "generateTreeStructure" /\ pc = "done") =>
     IF HasPage(graph) THEN root # NoId /\ treeNodes # <<>>
     ELSE thrown = "NoRootFoundError"

\* ------------------------------------------- load and generateAll (LoadSpec)
\* new ContextGenerator(): readFileSync and JSON.parse, nothing else.  A
\* missing file and malformed JSON throw; any parsed document becomes
\* this.graph as it is.
constructor ==
  /\ gen = "new"
  /\ IF source.kind = "missing"
     THEN /\ thrown' = "ENOENT"
          /\ gen' = "failed"
          /\ UNCHANGED graph
     ELSE IF source.kind = "invalid"
     THEN /\ thrown' = "SyntaxError"
          /\ gen' = "failed"
          /\ UNCHANGED graph
     ELSE /\ graph' = source.graph
          /\ gen' = "full"
          /\ UNCHANGED thrown
  /\ UNCHANGED <<source, artifacts, walkVars, taskVars, renderVars, viewVars, sideVars>>

\* generateFullContext throwing also when the destination is not a page.
MutGenerateFullContextThrows(g) ==
  \E k \in 1..Len(g.edges) :
    /\ g.edges[k].type = "navigation"
    /\ (findNode(g, g.edges[k].from) = 0 \/ ~isPage(g, g.edges[k].to))

\* generateFullContext dereferences the source and the destination node of
\* every Navigation edge (page.name, toPage.route): a TypeError when
\* graph.nodes.find returns undefined.
generateFullContextThrows(g) ==
  \E k \in 1..Len(g.edges) :
    /\ g.edges[k].type = "navigation"
    /\ (findNode(g, g.edges[k].from) = 0 \/ findNode(g, g.edges[k].to) = 0)

\* generateNodeHTML dereferences the destination (toNode.name) of every edge
\* that leaves a listed node, whatever the edge's type.
generateNodeHTMLThrows(g) ==
  \E i \in 1..Len(g.nodes), k \in 1..Len(g.edges) :
    /\ g.nodes[i].type \in {"page", "component"}
    /\ g.edges[k].from = g.nodes[i].id
    /\ findNode(g, g.edges[k].to) = 0

\* A step of generateAll: render, then writeFileSync.  A throw leaves
\* generateAll at once; the CLI logs it and exits with status 1.
RenderAndWrite(throws, file, next) ==
  IF throws
  THEN /\ thrown' = "TypeError"
       /\ gen' = "failed"
       /\ UNCHANGED artifacts
  ELSE /\ artifacts' = artifacts \cup {file}
       /\ gen' = next
       /\ UNCHANGED thrown

writeFullContext ==
  /\ gen = "full"
  /\ RenderAndWrite(generateFullContextThrows(graph), "full-context.md", "quick")
  /\ UNCHANGED <<source, graph, walkVars, taskVars, renderVars, viewVars, sideVars>>

writeQuickReference ==
  /\ gen = "quick"
  /\ RenderAndWrite(FALSE, "quick-reference.md", "tree")
  /\ UNCHANGED <<source, graph, walkVars, taskVars, renderVars, viewVars, sideVars>>

\* generateTreeStructure has returned: the tree file is written.
writeTreeStructure ==
  /\ gen = "tree"
  /\ pc = "done"
  /\ RenderAndWrite(FALSE, "tree-structure.txt", "json")
  /\ UNCHANGED <<source, graph, walkVars, taskVars, renderVars, viewVars, sideVars>>

writeJsonContext ==
  /\ gen = "json"
  /\ RenderAndWrite(FALSE, "context.json", "html")
  /\ UNCHANGED <<source, graph, walkVars, taskVars, renderVars, viewVars, sideVars>>

writeHtmlTreeMap ==
  /\ gen = "html"
  /\ RenderAndWrite(generateNodeHTMLThrows(graph), "tree-map.html", "finished")
  /\ UNCHANGED <<source, graph, walkVars, taskVars, renderVars, viewVars, sideVars>>

\* Sources for the load: documents whose node ids may repeat and whose edge
\* endpoints may name no node, a missing file and a malformed one.
LoadNodes ==
  UNION {{[i \in 1..n |-> PlainNode(ids[i], ty[i])] :
            ids \in IdSeqs(n), ty \in [1..n -> {"page", "component"}]} : n \in 0..MaxNodes}

LoadSources ==
  {[kind |-> "graph", graph |-> [nodes |-> ns, edges |-> es]] :
     ns \in LoadNodes, es \in SeqsUpTo(EdgeSet, MaxLoadEdges)}
  \cup {[kind |-> k, graph |-> NoGraph] : k \in {"missing", "invalid"}}

LoadInit ==
  /\ source \in LoadSources
  /\ graph = NoGraph
  /\ gen = "new"
  /\ artifacts = {}
  /\ thrown = "none"
  /\ Idle
  /\ NoTask
  /\ NoRender
  /\ NoViews
  /\ NoSide

LoadNext ==
  \/ constructor
  \/ writeFullContext
  \/ writeQuickReference
  \/ generateTreeStructure
  \/ visitChild
  \/ return
  \/ writeTreeStructure
  \/ writeJsonContext
  \/ writeHtmlTreeMap

LoadSpec == LoadInit /\ [][LoadNext]_vars

HasDuplicateId(g) ==
  \E i, j \in 1..Len(g.nodes) : i # j /\ g.nodes[i].id = g.nodes[j].id

HasDanglingEdge(g) ==
  \E k \in 1..Len(g.edges) :
    \/ \A i \in 1..Len(g.nodes) : g.nodes[i].id # g.edges[k].from
    \/ \A i \in 1..Len(g.nodes) : g.nodes[i].id # g.edges[k].to

Rejected == thrown = "ValidationError" /\ gen = "failed" /\ graph = NoGraph

\* C7: loading a document with two nodes of the same id fails with
\* ValidationError and returns no graph.
C7_DuplicateIdRejected ==
  (gen # "new" /\ source.kind = "graph" /\ HasDuplicateId(source.graph)) => Rejected

\* C8: loading a document with an edge endpoint that names no node fails with
\* ValidationError and returns no graph.
C8_DanglingReferenceRejected ==
  (gen # "new" /\ source.kind = "graph" /\ HasDanglingEdge(source.graph)) => Rejected

\* C9: for a source that breaks a structural rule (duplicate id, dangling
\* reference) no artifact is ever written, not even some of the five.
C9_NoArtifactForInvalidSource ==
  (source.kind = "graph" /\ (HasDuplicateId(source.graph) \/ HasDanglingEdge(source.graph)))
     => artifacts = {}

\* --------------------------------------- generateTaskContext (MatchSpec)
\* Characters of the texts: two letters, one of them also in upper case, and
\* the space.
Alphabet == {"a", "A", "b", " "}

Lower(c) == IF c = "A" THEN "a" ELSE c

\* String.prototype.toLowerCase
toLowerCase(str) == [i \in 1..Len(str) |-> Lower(str[i])]

\* String.prototype.split(' '): cut at every single space; an empty string,
\* a leading, a trailing and a doubled space each give an empty piece.
RECURSIVE split(_)
split(str) ==
  LET spaces == {i \in 1..Len(str) : str[i] = " "} IN
    IF spaces = {} THEN <<str>>
    ELSE LET k == CHOOSE i \in spaces : \A j \in spaces : i <= j
         IN <<SubSeq(str, 1, k - 1)>> \o split(SubSeq(str, k + 1, Len(str)))

\* String.prototype.includes: the empty keyword is included in every text.
includes(text, keyword) ==
  \E i \in 0..(Len(text) - Len(keyword)) : SubSeq(text, i + 1, i + Len(keyword)) = keyword

\* `${node.name} ${node.description} ${node.route}`.toLowerCase()
pageText(node) ==
  toLowerCase(node.name \o <<" ">> \o node.description \o <<" ">> \o node.route)

\* The callback of graph.nodes.filter in generateTaskContext.
isRelevant(node, taskDescription) ==
  /\ node.type = "page"
  /\ LET keywords == split(toLowerCase(taskDescription)) IN
       \E k \in 1..Len(keywords) : includes(pageText(node), keywords[k])

\* graph.nodes.filter(...): the indices of the kept nodes from i on, in order.
RECURSIVE relevantPages(_, _, _)
relevantPages(g, taskDescription, i) ==
  IF i > Len(g.nodes) THEN <<>>
  ELSE IF isRelevant(g.nodes[i], taskDescription)
  THEN <<i>> \o relevantPages(g, taskDescription, i + 1)
  ELSE relevantPages(g, taskDescription, i + 1)

\* relevantPages.length > 0, with the section emitted for any list.
MutHasRelevantPages(rel) == TRUE

\* relevantPages.length > 0
hasRelevantPages(rel) == Len(rel) > 0

\* needsAuth taken as every matched page being protected.
MutNeedsAuth(g, rel) == \A k \in 1..Len(rel) : Truthy(g.nodes[rel[k]].requiresAuth)

\* relevantPages.some(page => page.requiresAuth)
needsAuth(g, rel) == \E k \in 1..Len(rel) : Truthy(g.nodes[rel[k]].requiresAuth)

\* The sections of the returned string, in order: the header, "Relevant
\* Pages" with one entry per matched page, "Authentication Required" with the
\* default credentials and `${baseUrl}/login`.
taskContext(g, rel) ==
  [sections |-> <<"Task Context">>
                  \o (IF hasRelevantPages(rel) THEN <<"Relevant Pages">> ELSE <<>>)
                  \o (IF needsAuth(g, rel) THEN <<"Authentication Required">> ELSE <<>>),
   pages |-> IF hasRelevantPages(rel) THEN rel ELSE <<>>,
   username |-> IF needsAuth(g, rel) THEN g.defaultCredentials.username ELSE "",
   password |-> IF needsAuth(g, rel) THEN g.defaultCredentials.password ELSE "",
   login |-> IF needsAuth(g, rel) THEN <<g.baseUrl, "/login">> ELSE <<>>]

\* generateTaskContext(taskDescription).  With needsAuth the credentials are
\* read as this.graph.authentication.defaultCredentials.username: a TypeError
\* when defaultCredentials is undefined, and nothing is returned.
generateTaskContext ==
  /\ gen = "cli"
  /\ tpc = "ready"
  /\ LET rel == relevantPages(graph, task, 1) IN
       /\ relevant' = rel
       /\ IF needsAuth(graph, rel) /\ ~graph.defaultCredentials.defined
          THEN /\ tpc' = "thrown"
               /\ taskError' = "TypeError"
               /\ UNCHANGED context
          ELSE /\ tpc' = "returned"
               /\ context' = taskContext(graph, rel)
               /\ UNCHANGED taskError
  /\ UNCHANGED <<loadVars, walkVars, renderVars, task, viewVars, sideVars>>

\* Pages with either requiresAuth value and two-letter texts; components with
\* a name only.
MatchNodeKinds ==
  {[type |-> "page", requiresAuth |-> q, name |-> n, description |-> d, route |-> r] :
     q \in {"true", "false"}, n \in {<<"A">>, <<"b">>},
     d \in {<<>>, <<"a", "b">>}, r \in {<<"a">>, <<"b">>}}
  \cup {[type |-> "component", requiresAuth |-> "undef", name |-> n,
         description |-> <<>>, route |-> <<>>] : n \in {<<"A">>, <<"b">>}}

MatchNodes ==
  UNION {{[i \in 1..n |-> Node(i, k[i].type, k[i].requiresAuth,
                                FALSE, k[i].name, k[i].description, k[i].route)] :
            k \in [1..n -> MatchNodeKinds]} : n \in 0..MaxMatchNodes}

\* graph.authentication.defaultCredentials: the configured pair, or undefined.
Credentials ==
  {[defined |-> TRUE, username |-> "demo", password |-> "demo123"],
   [defined |-> FALSE, username |-> "", password |-> ""]}

MatchGraphs ==
  {[nodes |-> ns, edges |-> <<>>, defaultCredentials |-> c, baseUrl |-> "http://localhost"] :
     ns \in MatchNodes, c \in Credentials}

MatchInit ==
  /\ \E g \in MatchGraphs : Loaded(g)
  /\ Idle
  /\ task \in SeqsUpTo(Alphabet, MaxTaskLen)
  /\ tpc = "ready"
  /\ relevant = <<>>
  /\ context = NoContext
  /\ taskError = "none"
  /\ NoRender
  /\ NoViews
  /\ NoSide

MatchNext == generateTaskContext

MatchSpec == MatchInit /\ [][MatchNext]_vars

\* The tokens of a task text: its lower-cased maximal runs of non-space
\* characters.
Tokens(taskText) ==
  LET low == [i \in 1..Len(taskText) |-> IF taskText[i] = "A" THEN "a" ELSE taskText[i]]
      IsWord(i, j) ==
        /\ i <= j
        /\ \A k \in i..j : low[k] # " "
        /\ (i = 1 \/ low[i - 1] = " ")
        /\ (j = Len(low) \/ low[j + 1] = " ")
  IN {SubSeq(low, p[1], p[2]) :
        p \in {q \in (1..Len(low)) \X (1..Len(low)) : IsWord(q[1], q[2])}}

ContainsToken(node, taskText) ==
  LET low == [i \in 1..Len(pageText(node)) |->
                IF pageText(node)[i] = "A" THEN "a" ELSE pageText(node)[i]]
  IN \E w \in Tokens(taskText) :
       \E i \in 1..Len(low) : i + Len(w) - 1 <= Len(low) /\ SubSeq(low, i, i + Len(w) - 1) = w

\* C10: the match returns, in declaration order, exactly the pages whose
\* lower-cased name, description and route contain a token of the task text;
\* components are never returned.
C10_ExactlyPagesWithAToken ==
  tpc = "returned" =>
    /\ \A k \in 1..Len(relevant) : graph.nodes[relevant[k]].type = "page"
    /\ \A j, k \in 1..Len(relevant) : j < k => relevant[j] < relevant[k]
    /\ {relevant[k] : k \in 1..Len(relevant)} =
         {i \in 1..Len(graph.nodes) :
            graph.nodes[i].type = "page" /\ ContainsToken(graph.nodes[i], task)}

\* C11: the match on the empty task string returns no page, whatever the
\* graph.
C11_EmptyTaskMatchesNothing ==
  (tpc = "returned" /\ task = <<>>) => relevant = <<>>

\* C12: the matched pages depend only on the set of words of the task: a
\* task with the same words and other leading, trailing or repeated spaces
\* matches the same pages.
C12_SpacingDoesNotMatter ==
  tpc = "returned" =>
    \A other \in SeqsUpTo(Alphabet, MaxTaskLen) :
      Tokens(other) = Tokens(task) => relevantPages(graph, other, 1) = relevant

\* ------------------------------------------- properties of the task briefing
Count(seq, x) == Cardinality({k \in 1..Len(seq) : seq[k] = x})

MatchedProtected == {k \in 1..Len(relevant) : graph.nodes[relevant[k]].requiresAuth = "true"}

\* C13: the briefing has the "Relevant Pages" section exactly when a page
\* matched; with no match it is the task header alone.
C13_RelevantPagesIffMatch ==
  tpc = "returned" =>
    /\ Count(context.sections, "Relevant Pages") = (IF relevant = <<>> THEN 0 ELSE 1)
    /\ relevant = <<>> => context.sections = <<"Task Context">>
    /\ relevant # <<>> => context.pages = relevant

C13_Witness ==
  /\ tpc = "returned"
  /\ relevant = <<>>
  /\ context.sections = <<"Task Context">>
  /\ \E i \in 1..Len(graph.nodes) : graph.nodes[i].requiresAuth = "true"

\* C14: the returned briefing has the authentication section once when a
\* matched page is protected, whatever their number, and not otherwise; the
\* section holds the graph's default credentials and baseUrl + "/login".
C14_AuthSectionOnce ==
  tpc = "returned" =>
    IF MatchedProtected # {}
    THEN /\ Count(context.sections, "Authentication Required") = 1
         /\ context.username = graph.defaultCredentials.username
         /\ context.password = graph.defaultCredentials.password
         /\ context.login = <<graph.baseUrl, "/login">>
    ELSE Count(context.sections, "Authentication Required") = 0

C14_Witness ==
  /\ tpc = "returned"
  /\ Cardinality(MatchedProtected) = 2
  /\ Count(context.sections, "Authentication Required") = 1
  /\ context.username = "demo"

\* C15: with a protected page matched and no default credentials on the
\* graph the briefing fails with MissingCredentialsError.
C15_MissingCredentialsError ==
  (tpc # "ready" /\ MatchedProtected # {} /\ ~graph.defaultCredentials.defined) =>
     (tpc = "thrown" /\ taskError = "MissingCredentialsError")

\* ------------------------------------------------------- the quick reference
\* The members of a set of indices, in rising order.
RECURSIVE Ordered(_)
Ordered(S) ==
  IF S = {} THEN <<>>
  ELSE LET m == CHOOSE i \in S : \A j \in S : i <= j IN <<m>> \o Ordered(S \ {m})

\* nodes.filter over every node, whatever its type.
MutNodesOfType(g, type) == Ordered(1..Len(g.nodes))

\* this.graph.nodes.filter(node => node.type === type), as indices.
nodesOfType(g, type) == Ordered({i \in 1..Len(g.nodes) : g.nodes[i].type = type})

\* node.elements && node.elements.length > 0
hasElements(node) == node.elements.defined /\ Len(node.elements.hasSelector) > 0

\* The "### name" heading and one bullet per element that has a selector.
selectorSection(node) ==
  [id |-> node.id,
   bullets |-> Ordered({e \in 1..Len(node.elements.hasSelector) : node.elements.hasSelector[e]})]

\* The sections "Key Selectors" gets from the nodes of one type.
keySelectors(g, type) ==
  LET kept == Ordered({i \in 1..Len(g.nodes) : g.nodes[i].type = type /\ hasElements(g.nodes[i])})
  IN [k \in 1..Len(kept) |-> selectorSection(g.nodes[kept[k]])]

\* The string generateQuickReference returns: "## Routes" with one line per
\* page, "## Key Selectors" with the pages' sections and then the components'.
quickReference(g) ==
  LET pages == nodesOfType(g, "page") IN
    [called |-> TRUE,
     routes |-> [k \in 1..Len(pages) |->
                   [id |-> g.nodes[pages[k]].id,
                    authRequired |-> Truthy(g.nodes[pages[k]].requiresAuth)]],
     selectors |-> keySelectors(g, "page") \o keySelectors(g, "component")]

\* generateQuickReference with the page filter done in place on graph.nodes.
MutGenerateQuickReference ==
  /\ gen = "cli"
  /\ ~digest.called
  /\ digest' = quickReference(graph)
  /\ graph' = [graph EXCEPT !.nodes = [k \in 1..Len(nodesOfType(graph, "page")) |->
                                         graph.nodes[nodesOfType(graph, "page")[k]]]]
  /\ UNCHANGED <<source, gen, artifacts, thrown, walkVars, taskVars, counters, outputs, log, viewVars, sideVars>>

generateQuickReference ==
  /\ gen = "cli"
  /\ ~digest.called
  /\ digest' = quickReference(graph)
  /\ UNCHANGED <<loadVars, walkVars, taskVars, counters, outputs, log, viewVars, sideVars>>

\* node.elements: undefined, or a list whose members have a selector or not.
ElementLists ==
  {[defined |-> FALSE, hasSelector |-> <<>>]}
  \cup {[defined |-> TRUE, hasSelector |-> es] : es \in SeqsUpTo(BOOLEAN, MaxElements)}

\* A node that also has the `elements` field.
WithElements(node, elements) ==
  [id |-> node.id, type |-> node.type, requiresAuth |-> node.requiresAuth,
   entryPoint |-> node.entryPoint, name |-> node.name, description |-> node.description,
   route |-> node.route, elements |-> elements]

DigestNodeKinds ==
  {[type |-> "page", requiresAuth |-> q, elements |-> es] :
     q \in {"true", "false", "undef"}, es \in ElementLists}
  \cup {[type |-> "component", requiresAuth |-> "undef", elements |-> es] : es \in ElementLists}

\* Up to MaxNodes nodes of these kinds, with the ids 1, 2, ... in order.
DigestNodes(k) ==
  [i \in DOMAIN k |-> WithElements(Node(i, k[i].type, k[i].requiresAuth, FALSE, <<>>, <<>>, <<>>),
                                    k[i].elements)]

DigestInit ==
  /\ \E n \in 0..MaxNodes : \E k \in [1..n -> DigestNodeKinds] :
       Loaded([nodes |-> DigestNodes(k), edges |-> <<>>])
  /\ Idle
  /\ NoTask
  /\ NoRender
  /\ NoViews
  /\ NoSide

DigestNext == generateQuickReference

DigestSpec == DigestInit /\ [][DigestNext]_vars

\* ------------------------------------------ properties of the quick reference
NodeIndex(id) == CHOOSE i \in 1..Len(graph.nodes) : graph.nodes[i].id = id

\* C16: the route list has one entry for each page and none for a component,
\* in the order of the nodes, and an entry is marked "(Auth Required)"
\* exactly when its page has requiresAuth true.
C16_OneRoutePerPage ==
  digest.called =>
    /\ \A i \in 1..Len(graph.nodes) :
         Cardinality({k \in 1..Len(digest.routes) : digest.routes[k].id = graph.nodes[i].id})
           = (IF graph.nodes[i].type = "page" THEN 1 ELSE 0)
    /\ \A j, k \in 1..Len(digest.routes) :
         j < k => NodeIndex(digest.routes[j].id) < NodeIndex(digest.routes[k].id)
    /\ \A k \in 1..Len(digest.routes) :
         digest.routes[k].authRequired
           <=> graph.nodes[NodeIndex(digest.routes[k].id)].requiresAuth = "true"

C16_Witness ==
  /\ digest.called
  /\ Len(digest.routes) = 2
  /\ digest.routes[1].authRequired
  /\ ~digest.routes[2].authRequired
  /\ graph.nodes[1].type = "component"

\* C17: a node has a section in the selector listing exactly when one of its
\* elements has a selector.
C17_SectionIffSelector ==
  digest.called =>
    \A i \in 1..Len(graph.nodes) :
      (\E k \in 1..Len(digest.selectors) : digest.selectors[k].id = graph.nodes[i].id)
        <=> (\E e \in 1..Len(graph.nodes[i].elements.hasSelector) :
               graph.nodes[i].elements.hasSelector[e])

\* ------------------------------------------------------------ the HTML tree map
\* The "Protected Pages" card counting every node not marked requiresAuth false.
MutProtectedCount(g) ==
  Cardinality({i \in 1..Len(g.nodes) : g.nodes[i].requiresAuth # "false"})

\* graph.nodes.filter(n => n.requiresAuth).length
protectedCount(g) == Cardinality({i \in 1..Len(g.nodes) : Truthy(g.nodes[i].requiresAuth)})

\* The four stat cards: Pages, Components, Connections, Protected Pages; then
\* one record per page from generateNodeHTML(graph.nodes.filter(page)).
statCards(g) ==
  [called |-> TRUE, error |-> "none",
   pages |-> Len(nodesOfType(g, "page")),
   components |-> Len(nodesOfType(g, "component")),
   connections |-> Len(g.edges),
   protectedPages |-> protectedCount(g),
   pageRecords |-> [k \in 1..Len(nodesOfType(g, "page")) |-> g.nodes[nodesOfType(g, "page")[k]].id]]

\* generateHTMLTreeMap builds the whole document in one template literal:
\* the stat cards, then generateNodeHTML for the pages and for the
\* components, whose TypeError leaves the call with no document.
generateHTMLTreeMap ==
  /\ gen = "cli"
  /\ ~counters.called
  /\ counters' = IF generateNodeHTMLThrows(graph)
                 THEN [NoCounters EXCEPT !.called = TRUE, !.error = "TypeError"]
                 ELSE statCards(graph)
  /\ UNCHANGED <<loadVars, walkVars, taskVars, digest, outputs, log, viewVars, sideVars>>

\* Pages with requiresAuth true, false or absent; components without it.
MapNodeKinds ==
  {[type |-> "page", requiresAuth |-> q] : q \in {"true", "false", "undef"}}
  \cup {[type |-> "component", requiresAuth |-> "undef"]}

MapNodes(k) ==
  [i \in DOMAIN k |-> Node(i, k[i].type, k[i].requiresAuth, FALSE, <<>>, <<>>, <<>>)]

MapInit ==
  /\ \E n \in 0..MaxNodes : \E k \in [1..n -> MapNodeKinds] :
       \E es \in SeqsUpTo(EdgeSet, MaxLoadEdges) :
         Loaded([nodes |-> MapNodes(k), edges |-> es])
  /\ Idle
  /\ NoTask
  /\ NoRender
  /\ NoViews
  /\ NoSide

MapNext == generateHTMLTreeMap

MapSpec == MapInit /\ [][MapNext]_vars

\* -------------------------------------------- properties of the HTML tree map
NodesWith(type, auth) ==
  {i \in 1..Len(graph.nodes) : graph.nodes[i].type \in type /\ graph.nodes[i].requiresAuth \in auth}

Ready ==
  /\ tpc = "ready"
  /\ ~digest.called
  /\ ~counters.called
  /\ Len(log) < MaxCalls

\* const context = generator.generateTaskContext(task), or the TypeError it
\* threw; the locals of the call are gone afterwards.
taskContextReturned ==
  /\ tpc # "ready"
  /\ outputs' = [outputs EXCEPT !.task = @ \cup {[error |-> taskError, context |-> context]}]
  /\ log' = Append(log, "generateTaskContext")
  /\ tpc' = "ready"
  /\ relevant' = <<>>
  /\ context' = NoContext
  /\ taskError' = "none"
  /\ UNCHANGED <<loadVars, walkVars, task, digest, counters, viewVars, sideVars>>

\* const quickRef = this.generator.generateQuickReference()
quickReferenceReturned ==
  /\ digest.called
  /\ outputs' = [outputs EXCEPT !.digest = @ \cup {digest}]
  /\ log' = Append(log, "generateQuickReference")
  /\ digest' = NoDigest
  /\ UNCHANGED <<loadVars, walkVars, taskVars, counters, viewVars, sideVars>>

\* const htmlTreeMap = this.generateHTMLTreeMap(), or the TypeError it threw.
htmlTreeMapReturned ==
  /\ counters.called
  /\ outputs' = [outputs EXCEPT !.counters = @ \cup {counters}]
  /\ log' = Append(log, "generateHTMLTreeMap")
  /\ counters' = NoCounters
  /\ UNCHANGED <<loadVars, walkVars, taskVars, digest, viewVars, sideVars>>

\* A protected or a public page "A" at route "a", and a component "b"; each
\* has one element with a selector.
RenderNodeKinds ==
  {[type |-> "page", requiresAuth |-> q, name |-> <<"A">>, route |-> <<"a">>] :
     q \in {"true", "false"}}
  \cup {[type |-> "component", requiresAuth |-> "undef", name |-> <<"b">>, route |-> <<>>]}

RenderNodes(k) ==
  [i \in DOMAIN k |->
     WithElements(Node(i, k[i].type, k[i].requiresAuth, FALSE, k[i].name, <<>>, k[i].route),
                  [defined |-> TRUE, hasSelector |-> <<TRUE>>])]

RenderTasks == {<<"a">>, <<"b">>}

RenderInit ==
  /\ \E n \in 0..MaxMatchNodes : \E k \in [1..n -> RenderNodeKinds] :
       \E es \in SeqsUpTo(EdgeSet, MaxRootEdges), c \in Credentials :
         Loaded([nodes |-> RenderNodes(k), edges |-> es, defaultCredentials |-> c,
                 baseUrl |-> "http://localhost"])
  /\ Idle
  /\ task \in RenderTasks
  /\ tpc = "ready"
  /\ relevant = <<>>
  /\ context = NoContext
  /\ taskError = "none"
  /\ NoRender
  /\ NoViews
  /\ NoSide

RenderNext ==
  \/ Ready /\ generateTaskContext
  \/ Ready /\ generateQuickReference
  \/ Ready /\ generateHTMLTreeMap
  \/ taskContextReturned
  \/ quickReferenceReturned
  \/ htmlTreeMapReturned

RenderSpec == RenderInit /\ [][RenderNext]_vars

\* ------------------------------------------- properties of sequences of calls
\* What generateTaskContext(task) gives on the graph as it was loaded.
FreshTask ==
  LET g == source.graph
      rel == relevantPages(g, task, 1)
  IN IF needsAuth(g, rel) /\ ~g.defaultCredentials.defined
     THEN [error |-> "TypeError", context |-> NoContext]
     ELSE [error |-> "none", context |-> taskContext(g, rel)]

\* What generateHTMLTreeMap gives on the graph as it was loaded.
FreshCounters ==
  IF generateNodeHTMLThrows(source.graph)
  THEN [NoCounters EXCEPT !.called = TRUE, !.error = "TypeError"]
  ELSE statCards(source.graph)

\* C19: whatever renderer calls came before, failed ones included, the graph
\* is the one that was loaded, and every call has given what it gives on the
\* graph as loaded.
C19_GraphUnchanged ==
  /\ graph = source.graph
  /\ outputs.task \subseteq {FreshTask}
  /\ outputs.digest \subseteq {quickReference(source.graph)}
  /\ outputs.counters \subseteq {FreshCounters}

\* A call that threw, then two more calls that returned.
C19_Witness ==
  /\ Len(log) = 3
  /\ log[1] = "generateTaskContext"
  /\ [error |-> "TypeError", context |-> NoContext] \in outputs.task
  /\ log[2] = "generateQuickReference"
  /\ log[3] = "generateHTMLTreeMap"
  /\ \E c \in outputs.counters : c.error = "none" /\ c.pages >= 1

MutOptionOn(value) == value = "true"

OptionOn(value) == value # "false"

\* The `from` ids of the Navigation edges, each once, in the order in which
\* navigationMap got its keys (Object.keys gives string keys in that order).
RECURSIVE navigationKeys(_, _)
navigationKeys(edges, seen) ==
  IF edges = <<>> THEN <<>>
  ELSE IF Head(edges).type = "navigation" /\ Head(edges).from \notin seen
  THEN <<Head(edges).from>> \o navigationKeys(Tail(edges), seen \cup {Head(edges).from})
  ELSE navigationKeys(Tail(edges), seen)

\* "## Navigation Flow": one "**From name**" group per key of navigationMap,
\* with the destinations pushed for that key.
navigationFlow(g) ==
  LET keys == navigationKeys(g.edges, {}) IN
    [k \in 1..Len(keys) |-> [from |-> keys[k], to |-> children(g, keys[k])]]

\* The string generateFullContext returns.
fullContext(g, options) ==
  [called |-> TRUE, error |-> "none", options |-> options,
   sections |-> <<"header", "pages">>
                  \o (IF OptionOn(options.includeComponents) THEN <<"components">> ELSE <<>>)
                  \o <<"navigation">>
                  \o (IF OptionOn(options.includeAuth) /\ g.authentication
                      THEN <<"authentication">> ELSE <<>>)
                  \o (IF OptionOn(options.includeFlows) /\ g.commonPatterns
                      THEN <<"flows">> ELSE <<>>),
   pages |-> [k \in 1..Len(nodesOfType(g, "page")) |-> g.nodes[nodesOfType(g, "page")[k]].id],
   groups |-> navigationFlow(g)]

generateFullContext(options) ==
  /\ gen = "cli"
  /\ ~narrative.called
  /\ narrative' = IF generateFullContextThrows(graph)
                  THEN [NoNarrative EXCEPT !.called = TRUE, !.error = "TypeError",
                                           !.options = options]
                  ELSE fullContext(graph, options)
  /\ UNCHANGED <<loadVars, walkVars, taskVars, renderVars, treeText, diagrams, sideVars>>

\* ---------------------------------------------------------- the tree artifact
\* buildTreeText(tree, ...) gets the string by value: `tree +=` inside the
\* callee binds its own parameter, and the caller's string stays as it was.
afterCall(callerTree, calleeLines) == callerTree

\* The lines buildTreeText wrote for the pages it visited.
walkLines == [k \in 1..Len(treeNodes) |-> [id |-> treeNodes[k].id, depth |-> treeNodes[k].depth]]

\* The rest of generateTreeStructure after the walk: "All Pages", "Global
\* Components", return tree.
treeStructureReturned ==
  /\ via = "generateTreeStructure"
  /\ pc = "done"
  /\ ~treeText.called
  /\ treeText' = [called |-> TRUE,
                  lines |-> afterCall(<<>>, walkLines),
                  allPages |-> [k \in 1..Len(nodesOfType(graph, "page")) |->
                                  graph.nodes[nodesOfType(graph, "page")[k]].id]]
  /\ UNCHANGED <<loadVars, walkVars, taskVars, renderVars, narrative, diagrams, sideVars>>

\* ---------------------------------------------------------------- the diagrams
\* An edge with its trigger.
WithTrigger(edge, trigger) ==
  [from |-> edge.from, to |-> edge.to, type |-> edge.type, trigger |-> trigger]

\* The connectors and styles with Navigation and Interaction exchanged.
MutEdgeStyle(type, solid, other) == IF type = "navigation" THEN other ELSE solid

\* edge.type === 'navigation' ? '-->' : '-.->'  (and 'solid' : 'dashed')
edgeStyle(type, solid, other) == IF type = "navigation" THEN solid ELSE other

\* generateMermaidDiagram: a declaration per page or component, a line per edge.
mermaidDiagram(g) ==
  [called |-> TRUE,
   nodes |-> [i \in 1..Len(g.nodes) |->
                [id |-> g.nodes[i].id,
                 shape |-> IF g.nodes[i].type = "component" THEN "component"
                           ELSE IF Truthy(g.nodes[i].requiresAuth) THEN "[/" ELSE "[("]],
   edges |-> [k \in 1..Len(g.edges) |->
                [from |-> g.edges[k].from, to |-> g.edges[k].to,
                 style |-> edgeStyle(g.edges[k].type, "-->", "-.->"), label |-> ""]]]

\* generateDotFormat: the same with colours, styles and the trigger as label.
dotFormat(g) ==
  [called |-> TRUE,
   nodes |-> [i \in 1..Len(g.nodes) |->
                [id |-> g.nodes[i].id,
                 shape |-> IF g.nodes[i].type = "component" THEN "lightblue"
                           ELSE IF Truthy(g.nodes[i].requiresAuth) THEN "orange"
                           ELSE "lightgreen"]],
   edges |-> [k \in 1..Len(g.edges) |->
                [from |-> g.edges[k].from, to |-> g.edges[k].to,
                 style |-> edgeStyle(g.edges[k].type, "solid", "dashed"),
                 label |-> g.edges[k].trigger]]]

generateMermaidDiagram ==
  /\ gen = "cli"
  /\ ~diagrams.mermaid.called
  /\ diagrams' = [diagrams EXCEPT !.mermaid = mermaidDiagram(graph)]
  /\ UNCHANGED <<loadVars, walkVars, taskVars, renderVars, narrative, treeText, sideVars>>

generateDotFormat ==
  /\ gen = "cli"
  /\ ~diagrams.dot.called
  /\ diagrams' = [diagrams EXCEPT !.dot = dotFormat(graph)]
  /\ UNCHANGED <<loadVars, walkVars, taskVars, renderVars, narrative, treeText, sideVars>>

\* ------------------------------------------------- all the views of one graph
\* Documents with up to MaxNodes nodes, ids repeated or not, and up to
\* MaxLoadEdges edges, endpoints resolving or not; each node has one element.
ViewNodes(ids, types) ==
  [i \in DOMAIN ids |->
     WithElements(PlainNode(ids[i], types[i]), [defined |-> TRUE, hasSelector |-> <<TRUE>>])]

ViewEdges(edges) == [k \in DOMAIN edges |-> WithTrigger(edges[k], "click")]

ViewInit ==
  /\ \E n \in 0..MaxNodes : \E ids \in IdSeqs(n), types \in [1..n -> {"page", "component"}] :
       \E es \in SeqsUpTo(EdgeSet, MaxLoadEdges) :
         Loaded([nodes |-> ViewNodes(ids, types), edges |-> ViewEdges(es),
                 authentication |-> TRUE, commonPatterns |-> TRUE])
  /\ Idle
  /\ NoTask
  /\ NoRender
  /\ NoViews
  /\ NoSide

\* The views are taken one after the other, each whether or not the one
\* before it threw.
ViewNext ==
  \/ generateFullContext(NoOptions)
  \/ narrative.called /\ generateQuickReference
  \/ digest.called /\ generateTreeStructure
  \/ visitChild
  \/ return
  \/ treeStructureReturned
  \/ treeText.called /\ generateMermaidDiagram
  \/ diagrams.mermaid.called /\ generateDotFormat
  \/ diagrams.dot.called /\ generateHTMLTreeMap

ViewSpec == ViewInit /\ [][ViewNext]_vars

\* ------------------------------------------------------ properties of the views
\* The data-model invariants the model varies: ids unique, endpoints resolve.
ValidGraph(g) == ~HasDuplicateId(g) /\ ~HasDanglingEdge(g)

PageIds ==
  LET idx == {i \in 1..Len(graph.nodes) : graph.nodes[i].type = "page"}
      at(k) == CHOOSE i \in idx : Cardinality({j \in idx : j < i}) = k - 1
  IN [k \in 1..Cardinality(idx) |-> graph.nodes[at(k)].id]

\* C22: the full context's page subsections, the quick reference's route
\* list, the tree file's "All Pages" and the HTML map's page records show
\* the same pages in the same order: the graph's pages in node order.
C22_ViewsAgreeOnPages ==
  /\ (narrative.called /\ narrative.error = "none") => narrative.pages = PageIds
  /\ digest.called => [k \in 1..Len(digest.routes) |-> digest.routes[k].id] = PageIds
  /\ treeText.called => treeText.allPages = PageIds
  /\ (counters.called /\ counters.error = "none") => counters.pageRecords = PageIds

\* Two pages with a component between them, shown by all four views.
C22_Witness ==
  /\ narrative.called /\ narrative.error = "none"
  /\ digest.called
  /\ treeText.called
  /\ counters.called /\ counters.error = "none"
  /\ Len(graph.nodes) = 3
  /\ graph.nodes[2].type = "component"
  /\ counters.pageRecords = <<graph.nodes[1].id, graph.nodes[3].id>>
  /\ graph.nodes[1].id # graph.nodes[3].id

\* C23: the returned tree text has, for the root and for every page the walk
\* put in the tree, a line with that page at its depth.
C23_TreeLinesInText ==
  treeText.called =>
    \A k \in 1..Len(treeNodes) :
      \E l \in 1..Len(treeText.lines) :
        treeText.lines[l] = [id |-> treeNodes[k].id, depth |-> treeNodes[k].depth]

\* The ids with at least one outgoing Navigation edge.
NavSources == {graph.edges[k].from : k \in {e \in 1..Len(graph.edges) : graph.edges[e].type = "navigation"}}

\* C24: on a valid graph the Navigation Flow section has one group for each
\* node with an outgoing Navigation edge, the groups follow the order of
\* their sources in graph.nodes, and a group lists its destinations in edge
\* order.
C24_GroupsInNodeOrder ==
  (narrative.called /\ narrative.error = "none" /\ ValidGraph(graph)) =>
    /\ \A v \in Ids :
         Cardinality({k \in 1..Len(narrative.groups) : narrative.groups[k].from = v})
           = (IF v \in NavSources THEN 1 ELSE 0)
    /\ \A j, k \in 1..Len(narrative.groups) :
         j < k => findNode(graph, narrative.groups[j].from) < findNode(graph, narrative.groups[k].from)
    /\ \A k \in 1..Len(narrative.groups) :
         LET nav == NavFrom(graph.edges, narrative.groups[k].from)
         IN narrative.groups[k].to = [i \in 1..Len(nav) |-> nav[i].to]

\* --------------------------------------------- the full context and its options
\* Each option given as true or false, or left out of the options object.
Options ==
  [includeAuth : {"true", "false", "unset"}, includeComponents : {"true", "false", "unset"},
   includeFlows : {"true", "false", "unset"}]

NarrativeInit ==
  /\ \E n \in 0..MaxMatchNodes : \E types \in [1..n -> {"page", "component"}] :
       \E es \in SeqsUpTo(EdgeSet, MaxRootEdges), a \in BOOLEAN, c \in BOOLEAN :
         Loaded([nodes |-> ViewNodes([i \in 1..n |-> i], types), edges |-> ViewEdges(es),
                 authentication |-> a, commonPatterns |-> c])
  /\ Idle
  /\ NoTask
  /\ NoRender
  /\ NoViews
  /\ NoSide

NarrativeNext == \E options \in Options : generateFullContext(options)

NarrativeSpec == NarrativeInit /\ [][NarrativeNext]_vars

SectionOrder == <<"header", "pages", "components", "navigation", "authentication", "flows">>

Position(section) == CHOOSE k \in 1..Len(SectionOrder) : SectionOrder[k] = section

HasSection(section) == \E k \in 1..Len(narrative.sections) : narrative.sections[k] = section

Triggers == {"click", "submit"}

DiagramNodeKinds ==
  {[type |-> "page", requiresAuth |-> q] : q \in {"true", "false"}}
  \cup {[type |-> "component", requiresAuth |-> "undef"]}

DiagramNodes(k) ==
  [i \in DOMAIN k |-> Node(i, k[i].type, k[i].requiresAuth, FALSE, <<>>, <<>>, <<>>)]

DiagramEdges == {WithTrigger(e, t) : e \in EdgeSet, t \in Triggers}

DiagramInit ==
  /\ \E n \in 0..MaxMatchNodes : \E k \in [1..n -> DiagramNodeKinds] :
       \E es \in SeqsUpTo(DiagramEdges, MaxLoadEdges) :
         Loaded([nodes |-> DiagramNodes(k), edges |-> es])
  /\ Idle
  /\ NoTask
  /\ NoRender
  /\ NoViews
  /\ NoSide

DiagramNext ==
  \/ generateMermaidDiagram
  \/ diagrams.mermaid.called /\ generateDotFormat

DiagramSpec == DiagramInit /\ [][DiagramNext]_vars

\* One declaration per node and one line per edge, in the graph's order, the
\* edge lines drawn as `nav` for Navigation and as `other` for Interaction.
Encodes(d, nav, other) ==
  /\ Len(d.nodes) = Len(graph.nodes)
  /\ \A i \in 1..Len(graph.nodes) : d.nodes[i].id = graph.nodes[i].id
  /\ Len(d.edges) = Len(graph.edges)
  /\ \A k \in 1..Len(graph.edges) :
       /\ d.edges[k].from = graph.edges[k].from
       /\ d.edges[k].to = graph.edges[k].to
       /\ graph.edges[k].type = "navigation" => d.edges[k].style = nav
       /\ graph.edges[k].type = "interaction" => d.edges[k].style = other

\* C26: the Mermaid and the DOT text have one declaration per node and one
\* line per edge, in order; Navigation is solid ("-->", "solid"), Interaction
\* dotted ("-.->") or dashed; a DOT edge is labelled with its trigger.
C26_DiagramsEncodeGraph ==
  /\ diagrams.mermaid.called => Encodes(diagrams.mermaid, "-->", "-.->")
  /\ diagrams.dot.called =>
       /\ Encodes(diagrams.dot, "solid", "dashed")
       /\ \A k \in 1..Len(graph.edges) : diagrams.dot.edges[k].label = graph.edges[k].trigger

\* Both texts of a graph with a Navigation and an Interaction edge of
\* different triggers.
C26_Witness ==
  /\ diagrams.dot.called
  /\ Len(graph.nodes) = 2
  /\ Len(graph.edges) = 2
  /\ graph.edges[1].type = "interaction" /\ graph.edges[2].type = "navigation"
  /\ diagrams.dot.edges[1].label # diagrams.dot.edges[2].label
  /\ diagrams.mermaid.edges[1].style = "-.->"

\* ----------------------------------------------------- the root, once more
\* C28: with no entry-point flag on any node and a page in the graph, the
\* root the tree generator resolves is a page, so the tree has a node.
C28_RootIsAPage ==
  (via = "generateTreeStructure" /\ pc = "done" /\ HasEntryFlag(graph) = {} /\ HasPage(graph)) =>
    /\ isPage(graph, root)
    /\ treeNodes # <<>>

\* --------------------------------------------- the code-fixing agent (run)
\* What a code file can hold; "" is a file cut short by a write that failed.
Contents == {"v1", "v2"}

FixedCodes == {"v1", "v2", "fixed"}

\* A step of run(): on success the agent goes on to `next`, on a throw main()
\* catches the error and the process exits.
Step(at, ok, next) ==
  /\ fixer.pc = at
  /\ IF ok THEN fixer' = next
     ELSE fixer' = [fixer EXCEPT !.pc = "failed", !.failedAt = at]
  /\ UNCHANGED <<loadVars, walkVars, taskVars, renderVars, viewVars, poll, chat>>

\* new ClaudeCodeAgent() and the key check of run().
run == Step("idle", fixer.apiKey, [fixer EXCEPT !.pc = "trace"])

readTraceLog == \E ok \in BOOLEAN : Step("trace", ok, [fixer EXCEPT !.pc = "code"])

readCodeFile ==
  \E ok \in BOOLEAN : Step("code", ok, [fixer EXCEPT !.pc = "analyze", !.code = fixer.target])

\* The analysis is the JSON object found in the completion, or the fallback
\* object built around its text.
analyzeTraceLog ==
  \E ok \in BOOLEAN, found \in {"parsed", "fallback"} :
    Step("analyze", ok, [fixer EXCEPT !.pc = "fix", !.analysis = found])

\* The completion's code block, whatever it holds.
fixCode ==
  \E ok \in BOOLEAN, fixed \in FixedCodes :
    Step("fix", ok, [fixer EXCEPT !.pc = "read", !.fixedCode = fixed])

\* writeFixedCode going on to the write of the fixed code after a backup
\* write that threw.
MutAfterBackup(ok) == "write"

\* Inside the try block a throw of writeFileSync(backupPath, ...) skips the
\* write of the fixed code.
afterBackup(ok) == IF ok THEN "write" ELSE "failed"

\* const originalCode = fs.readFileSync(filePath, 'utf8')
writeFixedCodeRead ==
  \E ok \in BOOLEAN :
    Step("read", ok, [fixer EXCEPT !.pc = "backup", !.originalCode = fixer.target])

\* fs.writeFileSync(backupPath, originalCode, 'utf8'): the backup file holds
\* the original, or on a failure nothing or a part of it.
writeFixedCodeBackup ==
  /\ fixer.pc = "backup"
  /\ \E ok \in BOOLEAN, left \in {{}, {""}} :
       fixer' = [fixer EXCEPT !.pc = afterBackup(ok),
                              !.failedAt = IF ok THEN "none" ELSE "backup",
                              !.backups = IF ok THEN @ \cup {fixer.originalCode} ELSE @ \cup left]
  /\ UNCHANGED <<loadVars, walkVars, taskVars, renderVars, viewVars, poll, chat>>

\* fs.writeFileSync(filePath, fixedCode, 'utf8'): a failure leaves the target
\* as it was or cut short.
writeFixedCodeWrite ==
  /\ fixer.pc = "write"
  /\ \E ok \in BOOLEAN, left \in {fixer.target, ""} :
       fixer' = [fixer EXCEPT !.pc = IF ok THEN "done" ELSE "failed",
                              !.failedAt = IF ok THEN @ ELSE "write",
                              !.target = IF ok THEN fixer.fixedCode ELSE left]
  /\ UNCHANGED <<loadVars, walkVars, taskVars, renderVars, viewVars, poll, chat>>

AgentInit ==
  /\ Loaded(NoGraph)
  /\ Idle
  /\ NoTask
  /\ NoRender
  /\ NoViews
  /\ \E code \in Contents, key \in BOOLEAN : fixer = FixerAt(code, key)
  /\ poll = NoPoll
  /\ chat = NoChat

AgentNext ==
  \/ run
  \/ readTraceLog
  \/ readCodeFile
  \/ analyzeTraceLog
  \/ fixCode
  \/ writeFixedCodeRead
  \/ writeFixedCodeBackup
  \/ writeFixedCodeWrite

AgentSpec == AgentInit /\ [][AgentNext]_vars

\* C27: the target file differs from its original content only after a
\* backup holding that content was written, and a run that failed at the
\* read of the original or at the backup write leaves the target as it was.
C27_BackupBeforeOverwrite ==
  /\ fixer.target # fixer.initial => fixer.initial \in fixer.backups
  /\ (fixer.pc = "failed" /\ fixer.failedAt \in {"read", "backup"}) => fixer.target = fixer.initial
  /\ fixer.pc \in {"write", "done"} => fixer.initial \in fixer.backups

\* The fixed code is in the file and the backup holds the original.
C27_Witness ==
  /\ fixer.pc = "done"
  /\ fixer.target = "fixed"
  /\ fixer.backups = {fixer.initial}

\* ------------------------------------- the polling loop (automateStyleScout)
maxAttempts == 600

\* What client.tasks.retrieve can report; "unknown" is any other string.
Statuses == {"created", "started", "finished", "stopped", "paused", "unknown"}

\* The loop leaving on every status other than created and started.
MutBreaks(status) == status \notin {"created", "started"}

\* The branches of the loop that `break`.
breaks(status) == status = "finished" \/ status = "stopped" \/ status = "paused"

\* The test after the loop that lets the run go on to the download.
completed(status) == ~(status # "finished" /\ status # "stopped" /\ status # "paused")

PollStep(next) ==
  /\ poll' = next
  /\ UNCHANGED <<loadVars, walkVars, taskVars, renderVars, viewVars, fixer, chat>>

\* const task = await client.tasks.create(...); currentTask = task
createTask ==
  /\ poll.pc = "idle"
  /\ \/ \E status \in Statuses : PollStep([poll EXCEPT !.pc = "polling", !.status = status])
     \/ PollStep([poll EXCEPT !.pc = "failed", !.error = "create"])

\* One turn of the while loop: wait, retrieve, count, look at the status.
retrieve ==
  /\ poll.pc = "polling"
  /\ poll.attempts < maxAttempts
  /\ \/ \E status \in Statuses :
          PollStep([poll EXCEPT !.attempts = @ + 1, !.status = status,
                                !.pc = IF breaks(status) THEN "after" ELSE "polling"])
     \/ PollStep([poll EXCEPT !.pc = "failed", !.error = "retrieve"])

\* attempts < maxAttempts is false: the loop ends.
exhausted ==
  /\ poll.pc = "polling"
  /\ ~(poll.attempts < maxAttempts)
  /\ PollStep([poll EXCEPT !.pc = "after"])

\* The test of currentTask.status after the loop.
checkStatus ==
  /\ poll.pc = "after"
  /\ IF completed(poll.status)
     THEN PollStep([poll EXCEPT !.pc = "download"])
     ELSE PollStep([poll EXCEPT !.pc = "failed",
                                !.error = "Task did not complete within expected time"])

\* await downloadTaskArtifacts(client, task.id, currentTask)
downloadTaskArtifacts ==
  /\ poll.pc = "download"
  /\ \/ PollStep([poll EXCEPT !.pc = "done"])
     \/ PollStep([poll EXCEPT !.pc = "failed", !.error = "download"])

PollInit ==
  /\ Loaded(NoGraph)
  /\ Idle
  /\ NoTask
  /\ NoRender
  /\ NoViews
  /\ fixer = NoFixer
  /\ poll = NoPoll
  /\ chat = NoChat

PollNext ==
  \/ createTask
  \/ retrieve
  \/ exhausted
  \/ checkStatus
  \/ downloadTaskArtifacts

PollSpec == PollInit /\ [][PollNext]_vars

Terminal == {"finished", "stopped", "paused"}

\* C29: the status is retrieved at most 600 times; the loop goes on after a
\* retrieval exactly when its status is not finished, stopped or paused; the
\* download is reached only with such a last status, and the run ends with
\* "Task did not complete within expected time" only after 600 retrievals
\* whose last status is none of them.
C29_PollingLoop ==
  /\ poll.attempts <= 600
  /\ (poll.pc = "polling" /\ poll.attempts > 0) => poll.status \notin Terminal
  /\ (poll.pc = "after" /\ poll.attempts < 600) => poll.status \in Terminal
  /\ poll.pc \in {"download", "done"} => poll.status \in Terminal
  /\ poll.error = "download" => poll.status \in Terminal
  /\ poll.error = "Task did not complete within expected time" =>
       (poll.pc = "failed" /\ poll.attempts = 600 /\ poll.status \notin Terminal)

\* 600 retrievals of an unfinished task, then the error.
C29_Witness ==
  /\ poll.pc = "failed"
  /\ poll.attempts = 600
  /\ poll.status = "unknown"
  /\ poll.error = "Task did not complete within expected time"

\* ------------------------------------------ POST /api/chat (backend index.js)
MaxHistory == 2

\* req.body.message: undefined, the empty string, or a text.
Messages == {"absent", "", "Hi", "Bye"}

\* req.body.history: undefined, a value that cannot be spread, or an array of turns.
Turns == {"user", "assistant"}

Histories ==
  {NoHistory, [kind |-> "notIterable", turns |-> <<>>]} \cup
  {[kind |-> "array", turns |-> t] : t \in SeqsUpTo(Turns, MaxHistory)}

\* What a rejected completion call carries in error.code and error.status.
ErrorCodes == {"none", "insufficient_quota", "invalid_api_key"}

ErrorStatuses == {0, 429, 401}

Replies == {"Bye!", "null"}

\* !message
noMessage(message) == message = "absent" \/ message = ""

\* [...history] throws a TypeError unless history is iterable.
spreads(history) == history.kind = "array"

\* The catch block with the two tests in the other order.
MutErrorResponse(error) ==
  IF error.status = 429
  THEN [status |-> 429, body |-> "Rate limit exceeded. Please try again in a moment."]
  ELSE IF error.code = "insufficient_quota"
  THEN [status |-> 402, body |-> "OpenAI API quota exceeded. Please check your billing."]
  ELSE [status |-> 500, body |-> "An error occurred while processing your request."]

\* The catch block: the response for a caught error.
errorResponse(error) ==
  IF error.code = "insufficient_quota"
  THEN [status |-> 402, body |-> "OpenAI API quota exceeded. Please check your billing."]
  ELSE IF error.status = 429
  THEN [status |-> 429, body |-> "Rate limit exceeded. Please try again in a moment."]
  ELSE [status |-> 500, body |-> "An error occurred while processing your request."]

ChatStep(next) ==
  /\ chat' = next
  /\ UNCHANGED <<loadVars, walkVars, taskVars, renderVars, viewVars, fixer, poll>>

\* The handler ends in its catch block with the error thrown at the given place.
caught(c, at, error) ==
  [c EXCEPT !.pc = "done", !.thrown = at, !.error = error,
            !.responses = Append(@, errorResponse(error))]

\* The request arrives and the handler runs up to its first await.
postChat ==
  /\ chat.pc = "idle"
  /\ \E message \in Messages, history \in Histories :
       LET c == [chat EXCEPT !.message = message, !.history = history]
       IN  IF noMessage(message)
           THEN ChatStep([c EXCEPT !.pc = "done",
                            !.responses = Append(@, [status |-> 400, body |-> "Message is required"])])
           ELSE IF ~spreads(history)
           THEN ChatStep(caught(c, "spread", NoError))
           ELSE ChatStep([c EXCEPT !.pc = "completion", !.calls = @ + 1,
                            !.messages = <<"system">> \o history.turns \o <<"user">>])

\* openai.chat.completions.create settles; on success choices[0].message.content is read.
completion ==
  /\ chat.pc = "completion"
  /\ \/ \E reply \in Replies : ChatStep([chat EXCEPT !.pc = "flush", !.reply = reply])
     \/ ChatStep(caught(chat, "choices", NoError))
     \/ \E code \in ErrorCodes, status \in ErrorStatuses :
          ChatStep(caught(chat, "completion", [code |-> code, status |-> status]))

\* await flush() settles; the Galileo URLs are read under their own try; res.json.
respond ==
  /\ chat.pc = "flush"
  /\ \/ \E galileo \in {"info", "null"} :
          ChatStep([chat EXCEPT !.pc = "done", !.galileo = galileo,
                     !.responses = Append(@, [status |-> 200, body |-> chat.reply])])
     \/ \E code \in ErrorCodes, status \in ErrorStatuses :
          ChatStep(caught(chat, "flush", [code |-> code, status |-> status]))

ChatInit ==
  /\ Loaded(NoGraph)
  /\ Idle
  /\ NoTask
  /\ NoRender
  /\ NoViews
  /\ fixer = NoFixer
  /\ poll = NoPoll
  /\ chat = NoChat

ChatNext ==
  \/ postChat
  \/ completion
  \/ respond

ChatSpec == ChatInit /\ [][ChatNext]_vars

====
